---- MODULE Spec2Model ----
(***************************************************************************)
(* A model of the nano front end: the Lexer of src/src/lexer.hpp and the   *)
(* Parser with its Scope chain of src/src/parser.hpp.                      *)
(*                                                                         *)
(* Characters are one-character strings, text (std::string and             *)
(* std::string_view values) is a sequence of characters.  Offsets are      *)
(* 0-based as in the code; a sequence is indexed from 1, so the character  *)
(* at offset i is src[i + 1].                                              *)
(***************************************************************************)
EXTENDS Integers, Sequences, FiniteSets, TLC

VARIABLES
    m_source,       \* Lexer::m_source
    m_index,        \* Lexer::m_index
    m_line,         \* Lexer::m_line
    m_column,       \* Lexer::m_column
    tokens,         \* Lexer::tokens, and Parser::tokens once a Parser owns them
    lexer_pc,       \* "idle" | "tokenize" (in the main loop) | "returned"
    lexer_ret,      \* tokenize's return value: "none" while running, "nullopt" or a LexerError
    val_read,       \* what the owner of the Lexer last read from a token's val
    index,          \* Parser::index
    column,         \* Parser::column
    line,           \* Parser::line
    scopes,         \* every Scope allocated so far; a Scope* is an index, 0 is nullptr
    current_scope,  \* Parser::current_scope
    nodes,          \* parse()'s local vector of nodes
    parser_pc,      \* "idle" | "parse" | "fn_body" | "crashed" | "returned"
    call            \* the last call a user of Scope made on it, with the scopes before it

vars == <<m_source, m_index, m_line, m_column, tokens, lexer_pc, lexer_ret, val_read,
          index, column, line, scopes, current_scope, nodes, parser_pc, call>>

lexer_vars == <<m_source, m_index, m_line, m_column, lexer_pc, lexer_ret, val_read>>

\* No val read yet.
NoRead == [at |-> 0]

parser_vars == <<index, column, line, scopes, current_scope, nodes, parser_pc>>

\* No call made by a user of Scope.
NoCall == [op |-> "none"]

(***************************************************************************)
(* Bounds of the model.                                                    *)
(***************************************************************************)
MaxLen == 3

MaxOps == 2

MaxParams == 2

MaxStmts == 2

(***************************************************************************)
(* Characters.                                                             *)
(***************************************************************************)
\* The value '\0' that next_char and peek_next return at the end of input.
NUL == "NUL"

Lower == {"a", "b", "c", "d", "e", "f", "g", "h", "i", "j", "k", "l", "m",
          "n", "o", "p", "q", "r", "s", "t", "u", "v", "w", "x", "y", "z"}

Upper == {"A", "B", "C", "D", "E", "F", "G", "H", "I", "J", "K", "L", "M",
          "N", "O", "P", "Q", "R", "S", "T", "U", "V", "W", "X", "Y", "Z"}

isspace(c) == c \in {" ", "\t", "\n", "\r", "\f"}

isalpha(c) == c \in Lower \cup Upper

isdigit(c) == c \in {"0", "1", "2", "3", "4", "5", "6", "7", "8", "9"}

isalnum(c) == isalpha(c) \/ isdigit(c)

keywords ==
    { <<"f", "n">>, <<"r", "e", "t", "u", "r", "n">>, <<"v", "a", "r">>,
      <<"c", "o", "n", "s", "t">>, <<"e", "n", "u", "m">>, <<"s", "t", "r", "u", "c", "t">>,
      <<"c", "l", "a", "s", "s">>, <<"d", "y", "n">>, <<"w", "h", "i", "l", "e">>,
      <<"t", "r", "u", "e">>, <<"f", "a", "l", "s", "e">>, <<"f", "o", "r">>,
      <<"i", "f">>, <<"e", "l", "s", "e", "i", "f">>, <<"e", "l", "s", "e">>,
      <<"b", "r", "e", "a", "k">>, <<"c", "o", "n", "t", "i", "n", "u", "e">>, <<"s", "w", "i", "t", "c", "h">>,
      <<"c", "a", "s", "e">>, <<"d", "e", "f", "a", "u", "l", "t">>, <<"n", "u", "l", "l">>,
      <<"i", "m", "p", "o", "r", "t">>, <<"a", "s", "m">>, <<"c", "o", "m", "p", "t", "i", "m", "e">> }

LexerError == {"unterminated_string", "unterminated_character", "unknown_character",
               "unclosed_comment", "unknown_escape_sequence"}

(***************************************************************************)
(* The Lexer.  A cursor L is the record of m_index, m_line and m_column.   *)
(***************************************************************************)
Token(t, v, l, c) == [type |-> t, val |-> v, line |-> l, column |-> c]

\* A next_char that counts a newline as one more column of the line.
next_char_no_reset(src, L) ==
    IF L.m_index >= Len(src)
    THEN [c |-> NUL, L |-> L]
    ELSE [c |-> src[L.m_index + 1],
          L |-> [m_index  |-> L.m_index + 1,
                 m_line   |-> IF src[L.m_index + 1] = "\n" THEN L.m_line + 1 ELSE L.m_line,
                 m_column |-> L.m_column + 1]]

\* Lexer::next_char: the character read and the cursor after it.
next_char(src, L) ==
    IF L.m_index >= Len(src)
    THEN [c |-> NUL, L |-> L]
    ELSE LET c == src[L.m_index + 1]
         IN  [c |-> c,
              L |-> [m_index  |-> L.m_index + 1,
                     m_line   |-> IF c = "\n" THEN L.m_line + 1 ELSE L.m_line,
                     m_column |-> IF c = "\n" THEN 1 ELSE L.m_column + 1]]

\* Lexer::peek_next
peek_next(src, L) ==
    IF L.m_index >= Len(src) THEN NUL ELSE src[L.m_index + 1]

\* The inner loop of the identifier branch: [text, L].
RECURSIVE ScanIdentifier(_, _, _)
ScanIdentifier(src, L, identifier) ==
    IF isalnum(peek_next(src, L)) \/ peek_next(src, L) = "_"
    THEN LET n == next_char(src, L)
         IN  ScanIdentifier(src, n.L, Append(identifier, n.c))
    ELSE [text |-> identifier, L |-> L]

\* The inner loop of the number branch: [text, L].
RECURSIVE ScanNumber(_, _, _, _)
ScanNumber(src, L, num, has_dot) ==
    LET next == peek_next(src, L)
    IN  IF isdigit(next)
        THEN ScanNumber(src, next_char(src, L).L, Append(num, next), has_dot)
        ELSE IF next = "." /\ ~has_dot
        THEN ScanNumber(src, next_char(src, L).L, Append(num, next), TRUE)
        ELSE [text |-> num, L |-> L]

\* The inner loop of the string branch: [text, L].
RECURSIVE ScanString(_, _, _)
ScanString(src, L, str) ==
    IF peek_next(src, L) /= "\"" /\ peek_next(src, L) /= NUL
    THEN LET n == next_char(src, L)
         IN  ScanString(src, n.L, Append(str, n.c))
    ELSE [text |-> str, L |-> L]

\* The inner loop of the line comment: [text, L].
RECURSIVE ScanLineComment(_, _, _)
ScanLineComment(src, L, comment) ==
    IF peek_next(src, L) /= "\n" /\ peek_next(src, L) /= NUL
    THEN LET n == next_char(src, L)
         IN  ScanLineComment(src, n.L, Append(comment, n.c))
    ELSE [text |-> comment, L |-> L]

\* The inner loop of the block comment: [text, L, closed].
RECURSIVE ScanBlockComment(_, _, _)
ScanBlockComment(src, L, comment) ==
    LET n == next_char(src, L)
    IN  IF n.c = NUL
        THEN [text |-> comment, L |-> n.L, closed |-> FALSE]
        ELSE IF n.c = "*" /\ peek_next(src, n.L) = "/"
        THEN [text |-> comment, L |-> next_char(src, n.L).L, closed |-> TRUE]
        ELSE ScanBlockComment(src, n.L, Append(comment, n.c))

\* What one iteration of tokenize's loop leaves: the cursor, the tokens and
\* err, the LexerError it returns with ("none": the loop goes on).
Iter(L, toks, err) == [L |-> L, tokens |-> toks, err |-> err]

Emit(L, toks, type, val) ==
    Iter(L, Append(toks, Token(type, val, L.m_line, L.m_column)), "none")

\* The switch of the character branch on the character after the backslash.
Escape(esc) ==
    CASE esc = "n"  -> "\n"
      [] esc = "t"  -> "\t"
      [] esc = "\\" -> "\\"
      [] esc = "'"  -> "'"
      [] esc = "\"" -> "\""
      [] OTHER      -> "unknown_escape_sequence"

\* The character branch, entered with the opening quote consumed.
CharBranch(src, L0, toks) ==
    LET L1  == next_char(src, L0).L          \* line 211: the value is dropped
        esc == next_char(src, next_char(src, L1).L)
        raw == next_char(src, L1)
        bs  == peek_next(src, L1) = "\\"
        ch  == IF bs THEN Escape(esc.c) ELSE raw.c
        L2  == IF bs THEN esc.L ELSE raw.L
    IN  IF bs /\ ch = "unknown_escape_sequence"
        THEN Iter(L2, toks, "unknown_escape_sequence")
        ELSE IF peek_next(src, L2) = "'"
        THEN Emit(next_char(src, L2).L, toks, "CHAR", <<ch>>)
        ELSE Iter(L2, toks, "unterminated_character")

\* The branch of '/', entered with the slash consumed.
SlashBranch(src, L, toks) ==
    LET next == peek_next(src, L)
        L1   == next_char(src, L).L
    IN  IF next = "/"
        THEN LET s == ScanLineComment(src, L1, <<>>)
             IN  Emit(s.L, toks, "COMMENT", s.text)
        ELSE IF next = "*"
        THEN LET s == ScanBlockComment(src, L1, <<>>)
                 e == Emit(s.L, toks, "COMMENT", s.text)
             IN  IF s.closed THEN e ELSE Iter(e.L, e.tokens, "unclosed_comment")
        ELSE Emit(L, toks, "OP_DIV", <<"/">>)

\* The switch of the last branch: the kind, or "unknown_character", and
\* whether the character after c belongs to the token.
Operator(c, next) ==
    CASE c = "+" -> IF next = "+" THEN [type |-> "OP_INC", two |-> TRUE]
                    ELSE IF next = "=" THEN [type |-> "OP_PLUSEQUALS", two |-> TRUE]
                    ELSE [type |-> "OP_PLUS", two |-> FALSE]
      [] c = "-" -> IF next = "-" THEN [type |-> "OP_DEC", two |-> TRUE]
                    ELSE IF next = "=" THEN [type |-> "OP_MINUSEQUALS", two |-> TRUE]
                    ELSE [type |-> "OP_MINUS", two |-> FALSE]
      [] c = "*" -> IF next = "=" THEN [type |-> "OP_TIMESEQUALS", two |-> TRUE]
                    ELSE [type |-> "OP_TIMES", two |-> FALSE]
      [] c = "=" -> IF next = "=" THEN [type |-> "OP_EQUALSEQUALS", two |-> TRUE]
                    ELSE [type |-> "OP_EQUALS", two |-> FALSE]
      [] c = "!" -> IF next = "=" THEN [type |-> "OP_EXCL_EQUALS", two |-> TRUE]
                    ELSE [type |-> "OP_EXCL_MARK", two |-> FALSE]
      [] c = "&" -> IF next = "&" THEN [type |-> "OP_DOUBLEAMPERSAND", two |-> TRUE]
                    ELSE [type |-> "OP_AMPERSAND", two |-> FALSE]
      [] c = "|" -> IF next = "|" THEN [type |-> "OP_DOUBLEPIPE", two |-> TRUE]
                    ELSE [type |-> "OP_PIPE", two |-> FALSE]
      [] c = ">" -> IF next = "=" THEN [type |-> "GTHAN_EQUALS", two |-> TRUE]
                    ELSE [type |-> "GTHAN", two |-> FALSE]
      [] c = "<" -> IF next = "=" THEN [type |-> "LTHAN_EQUALS", two |-> TRUE]
                    ELSE [type |-> "LTHAN", two |-> FALSE]
      [] c = ":" -> IF next = ":" THEN [type |-> "DOUBLECOLON", two |-> TRUE]
                    ELSE [type |-> "COLON", two |-> FALSE]
      [] c = ";" -> [type |-> "SEMICOLON", two |-> FALSE]
      [] c = "," -> [type |-> "COMMA", two |-> FALSE]
      [] c = "." -> [type |-> "PERIOD", two |-> FALSE]
      [] c = "(" -> [type |-> "LPAREN", two |-> FALSE]
      [] c = ")" -> [type |-> "RPAREN", two |-> FALSE]
      [] c = "[" -> [type |-> "LBRACKET", two |-> FALSE]
      [] c = "]" -> [type |-> "RBRACKET", two |-> FALSE]
      [] c = "{" -> [type |-> "LBRACE", two |-> FALSE]
      [] c = "}" -> [type |-> "RBRACE", two |-> FALSE]
      [] OTHER   -> [type |-> "unknown_character", two |-> FALSE]

\* The last branch, entered with c consumed.
OperatorBranch(src, L, toks, c) ==
    LET next == peek_next(src, L)
        o    == Operator(c, next)
    IN  IF o.type = "unknown_character"
        THEN Iter(L, toks, "unknown_character")
        ELSE IF o.two
        THEN Emit(next_char(src, L).L, toks, o.type, <<c, next>>)
        ELSE Emit(L, toks, o.type, <<c>>)

\* Whether text begins with word.
StartsWith(text, word) ==
    Len(word) <= Len(text) /\ SubSeq(text, 1, Len(word)) = word

\* An identifier branch that takes a lexeme beginning with a keyword for
\* the keyword.
IdentifierBranchPrefix(src, L, toks, c) ==
    LET s == ScanIdentifier(src, L, <<c>>)
    IN  IF \E k \in keywords : StartsWith(s.text, k)
        THEN Emit(s.L, toks, "KEYWORD", s.text)
        ELSE Emit(s.L, toks, "IDENTIFIER", s.text)

\* The identifier branch, entered with c consumed.
IdentifierBranch(src, L, toks, c) ==
    LET s == ScanIdentifier(src, L, <<c>>)
    IN  IF s.text \in keywords
        THEN Emit(s.L, toks, "KEYWORD", s.text)
        ELSE Emit(s.L, toks, "IDENTIFIER", s.text)

\* The number branch, entered with the digit c consumed.
NumberBranch(src, L, toks, c) ==
    LET s == ScanNumber(src, L, <<c>>, FALSE)
    IN  Emit(s.L, toks, "NUMBER", s.text)

\* A string branch that takes either quote as the closing one.
RECURSIVE ScanStringEitherQuote(_, _, _)
ScanStringEitherQuote(src, L, str) ==
    IF peek_next(src, L) \notin {"\"", "'", NUL}
    THEN LET n == next_char(src, L)
         IN  ScanStringEitherQuote(src, n.L, Append(str, n.c))
    ELSE [text |-> str, L |-> L]

StringBranchEitherQuote(src, L, toks) ==
    LET s == ScanStringEitherQuote(src, L, <<>>)
    IN  IF peek_next(src, s.L) \in {"\"", "'"}
        THEN Emit(next_char(src, s.L).L, toks, "STRING", s.text)
        ELSE Iter(s.L, toks, "unterminated_string")

\* The string branch, entered with the opening quote consumed.
StringBranch(src, L, toks) ==
    LET s == ScanString(src, L, <<>>)
    IN  IF peek_next(src, s.L) = "\""
        THEN Emit(next_char(src, s.L).L, toks, "STRING", s.text)
        ELSE Iter(s.L, toks, "unterminated_string")

\* An iteration that looks at the character without consuming it, so that
\* whitespace is never passed.
TokenizeIterPeeking(src, L0, toks) ==
    LET c == peek_next(src, L0)
        L == next_char(src, L0).L
    IN  IF isspace(c)
        THEN Iter(L0, toks, "none")
        ELSE IF isalpha(c) \/ c = "_"
        THEN IdentifierBranch(src, L, toks, c)
        ELSE IF isdigit(c)
        THEN NumberBranch(src, L, toks, c)
        ELSE IF c = "\""
        THEN StringBranch(src, L, toks)
        ELSE IF c = "/"
        THEN SlashBranch(src, L, toks)
        ELSE IF c = "'"
        THEN CharBranch(src, L, toks)
        ELSE OperatorBranch(src, L, toks, c)

\* One iteration of the loop of Lexer::tokenize, from cursor L0.
TokenizeIter(src, L0, toks) ==
    LET n == next_char(src, L0)
        c == n.c
        L == n.L
    IN  IF isspace(c)
        THEN Iter(L, toks, "none")
        ELSE IF c = "\n"
        THEN Emit(L, toks, "NEWLINE",
                  <<"[", "n", "e", "w", "l", "i", "n", "e", "]">>)
        ELSE IF isalpha(c) \/ c = "_"
        THEN IdentifierBranch(src, L, toks, c)
        ELSE IF isdigit(c)
        THEN NumberBranch(src, L, toks, c)
        ELSE IF c = "\""
        THEN StringBranch(src, L, toks)
        ELSE IF c = "/"
        THEN SlashBranch(src, L, toks)
        ELSE IF c = "'"
        THEN CharBranch(src, L, toks)
        ELSE OperatorBranch(src, L, toks, c)

(***************************************************************************)
(* The source texts the Lexer is constructed with: every text of at most   *)
(* MaxLen characters of Alphabet, and the texts of the repository's tests  *)
(* and of the documented examples.                                         *)
(***************************************************************************)
Alphabet == {" ", "\n", "a", "n", "t", "1", ".", "\"", "'", "\\",
             "+", "-", "*", "/", "=", "!", "&", "|", ":", "<", ">",
             ";", "(", "@"}

BoundedSeq(S, n) == UNION {[1..k -> S] : k \in 0..n}

TestSources ==
    { <<"\"", "H", "e", "l", "l", "o", ",", " ", "w", "o", "r", "l", "d", "!", "\"">>,
      <<"\\", "n", "\\", "t", "\\", "r">>,
      <<"\"", "h", "e", "l", "l", "o", "'">>,
      <<"'", "h", "e", "l", "l", "o", "\"">>,
      <<"v", "a", "r", " ", "x", " ", "=", " ", "\"", "h", "i", "\"">>,
      <<"v", "a", "r", " ", "x", " ", "=", " ", "\"", "h", "i">>,
      <<"3", ".", "1", "4", ".", "5">>,
      <<"f", "o", "r", "E", "a", "c", "h">>,
      <<"'", "\\", "n", "'">>, <<"'", "\\", "z", "'">> }

\* Identifier-shaped sources: the reserved words, and words that hold one
\* as a prefix or a suffix.
WordSources ==
    keywords \cup
    { <<"v", "a", "r", "i", "a", "b", "l", "e">>, <<"_", "i", "f">>, <<"i", "f", "f">>,
      <<"f", "n", "1">>, <<"n", "u", "l", "l", "_">>, <<"F", "n">>, <<"e", "l", "s">> }

Sources == BoundedSeq(Alphabet, MaxLen) \cup TestSources \cup WordSources

\* Parser state while no Parser exists.
ParserIdle ==
    /\ index = 0
    /\ column = 1
    /\ line = 1
    /\ scopes = <<>>
    /\ current_scope = 0
    /\ nodes = <<>>
    /\ parser_pc = "idle"
    /\ call = NoCall

\* A Lexer constructed on a source text, tokenize() called.
InitLexer ==
    /\ m_source \in Sources
    /\ m_index = 0
    /\ m_line = 1
    /\ m_column = 1
    /\ tokens = <<>>
    /\ lexer_pc = "tokenize"
    /\ lexer_ret = "none"
    /\ val_read = NoRead
    /\ ParserIdle

\* One iteration of the loop of tokenize, with the return of an error.
TokenizeStep ==
    /\ lexer_pc = "tokenize"
    /\ m_index < Len(m_source)
    /\ LET r == TokenizeIter(m_source,
                             [m_index |-> m_index, m_line |-> m_line, m_column |-> m_column],
                             tokens)
       IN  /\ m_index' = r.L.m_index
           /\ m_line' = r.L.m_line
           /\ m_column' = r.L.m_column
           /\ tokens' = r.tokens
           /\ lexer_ret' = r.err
           /\ lexer_pc' = IF r.err = "none" THEN "tokenize" ELSE "returned"
    /\ UNCHANGED <<m_source, val_read, parser_vars, call>>

\* The loop ends at the end of the source: return std::nullopt.
TokenizeReturn ==
    /\ lexer_pc = "tokenize"
    /\ m_index >= Len(m_source)
    /\ lexer_ret' = "nullopt"
    /\ lexer_pc' = "returned"
    /\ UNCHANGED <<m_source, m_index, m_line, m_column, tokens, val_read, parser_vars, call>>

\* The text of every token but those of lines 120 and 205 is a
\* std::string_view of a std::string local to its branch of tokenize
\* (identifier, num, str, comment, op, or the temporary of line 240), which
\* is destroyed when the branch ends, before tokenize returns.
ViewsDestroyedString(token) == token.type \notin {"NEWLINE", "OP_DIV"}

\* A read of the text touches the destroyed storage only if the view has
\* bytes: an empty view (an empty comment, "") is read without an access.
ReadsDestroyedBytes(token) == ViewsDestroyedString(token) /\ Len(token.val) > 0

\* Reading such a view is undefined: the storage may still hold the text
\* ("intact"), hold other bytes by now ("overwritten"), or the read may end
\* the process ("fault").
ReadOutcomes == {"intact", "overwritten", "fault"}

\* A byte that is not the one that was written.
OtherByte == "other byte"

\* What a read of token.val gives: the view keeps its length.
ReadText(token, outcome) ==
    IF ~ReadsDestroyedBytes(token) \/ outcome = "intact"
    THEN token.val
    ELSE IF outcome = "overwritten"
    THEN [i \in 1..Len(token.val) |-> OtherByte]
    ELSE <<>>

\* The owner of the Lexer reads tokens.at(i).val after tokenize has
\* returned, as LexerStrings.AnsiEscapeCode does; one read is followed.
ReadVal ==
    /\ lexer_pc = "returned"
    /\ val_read = NoRead
    /\ \E i \in 1..Len(tokens), outcome \in ReadOutcomes :
           val_read' = [at |-> i,
                        outcome |-> IF ReadsDestroyedBytes(tokens[i])
                                    THEN outcome ELSE "intact",
                        text |-> ReadText(tokens[i], outcome)]
    /\ UNCHANGED <<m_source, m_index, m_line, m_column, tokens, lexer_pc, lexer_ret,
                   parser_vars, call>>

NextLexer == TokenizeStep \/ TokenizeReturn \/ ReadVal

SpecLexer == InitLexer /\ [][NextLexer]_vars

(***************************************************************************)
(* Claims about the Lexer, checked under SpecLexer.                        *)
(***************************************************************************)
Returned == lexer_pc = "returned"

Count(seq, P(_)) == Cardinality({i \in 1..Len(seq) : P(seq[i])})

\* C1: whenever tokenize returns a LexerError, the token sequence is empty:
\* tokens scanned earlier in the same call are not retained.
C1_NoTokensOnError ==
    (Returned /\ lexer_ret \in LexerError) => tokens = <<>>

\* A literal opened with the quote open and ended with the other quote close,
\* with no further quote open in it.
Mixed(src, open, close) ==
    /\ Len(src) >= 2
    /\ src[1] = open
    /\ src[Len(src)] = close
    /\ \A i \in 2..Len(src) : src[i] /= open

Decoded(e) ==
    CASE e = "n" -> "\n" [] e = "t" -> "\t" [] e = "\\" -> "\\"
      [] e = "'" -> "'" [] e = "\"" -> "\""

OneToken(type, val) ==
    /\ lexer_ret = "nullopt"
    /\ Len(tokens) = 1
    /\ tokens[1].type = type
    /\ tokens[1].val = val

\* C3: 'c' yields exactly one CHAR token whose text is c; a recognized
\* escape yields one CHAR token whose text is the decoded character; any
\* other escape fails with unknown_escape_sequence.
C3_CharLiteral ==
    Returned =>
        /\ \A c \in Alphabet \ {"\\", "'"} :
               m_source = <<"'", c, "'">> => OneToken("CHAR", <<c>>)
        /\ \A e \in {"n", "t", "\\", "'", "\""} :
               m_source = <<"'", "\\", e, "'">> => OneToken("CHAR", <<Decoded(e)>>)
        /\ m_source = <<"'", "\\", "z", "'">> => lexer_ret = "unknown_escape_sequence"

\* The thirteen two-character operators and their kinds.
Compound ==
    (<<"+", "+">> :> "OP_INC") @@ (<<"-", "-">> :> "OP_DEC")
    @@ (<<"+", "=">> :> "OP_PLUSEQUALS") @@ (<<"-", "=">> :> "OP_MINUSEQUALS")
    @@ (<<"*", "=">> :> "OP_TIMESEQUALS") @@ (<<"/", "=">> :> "OP_DIVEQUALS")
    @@ (<<"=", "=">> :> "OP_EQUALSEQUALS") @@ (<<"!", "=">> :> "OP_EXCL_EQUALS")
    @@ (<<"&", "&">> :> "OP_DOUBLEAMPERSAND") @@ (<<"|", "|">> :> "OP_DOUBLEPIPE")
    @@ (<<":", ":">> :> "DOUBLECOLON") @@ (<<"<", "=">> :> "LTHAN_EQUALS")
    @@ (<<">", "=">> :> "GTHAN_EQUALS")

\* The one-character operators that start a two-character one.
Single ==
    ("+" :> "OP_PLUS") @@ ("-" :> "OP_MINUS") @@ ("*" :> "OP_TIMES")
    @@ ("/" :> "OP_DIV") @@ ("=" :> "OP_EQUALS") @@ ("!" :> "OP_EXCL_MARK")
    @@ ("&" :> "OP_AMPERSAND") @@ ("|" :> "OP_PIPE") @@ (":" :> "COLON")
    @@ ("<" :> "LTHAN") @@ (">" :> "GTHAN")

\* C4: each two-character operator is exactly one token of its compound
\* kind, and the one-character token is produced only when the second
\* character does not match.
C4_CompoundOperators ==
    (Returned /\ Len(m_source) = 2) =>
        /\ m_source \in DOMAIN Compound
               => OneToken(Compound[m_source], m_source)
        /\ (/\ m_source[1] \in DOMAIN Single
            /\ Len(tokens) >= 1
            /\ tokens[1].type = Single[m_source[1]])
               => m_source \notin DOMAIN Compound

IsNewlineChar(c) == c = "\n"

IsNewlineToken(t) == t.type = "NEWLINE"

\* C5: outside literals and comments every newline character produces
\* exactly one NEWLINE token, and spaces and tabs produce none.
C5_NewlineTokens ==
    (/\ Returned
     /\ lexer_ret = "nullopt"
     /\ \A i \in 1..Len(m_source) : m_source[i] \notin {"\"", "'", "/"})
        => /\ Count(tokens, IsNewlineToken) = Count(m_source, IsNewlineChar)
           /\ (\A i \in 1..Len(m_source) : isspace(m_source[i])) => 
                  Len(tokens) = Count(m_source, IsNewlineChar)

(***************************************************************************)
(* The AST nodes of parser.hpp.  An ASTNode* is the node record itself,    *)
(* nullptr, or an indeterminate pointer.  The field type is ASTNode::type, *)
(* what node->type reads through an ASTNode*; VariableNode and             *)
(* PrototypeNode declare a second member type of their own, own_type.      *)
(***************************************************************************)
Type == {"INT", "FLOAT", "STRING", "BOOL", "NULL_T", "UNKNOWN"}

nullptr == [kind |-> "nullptr"]

\* The value of a pointer that was never set: of a function that ends
\* without a return statement.
Indeterminate == [kind |-> "indeterminate"]

IsObject(node) == node.kind \notin {"nullptr", "indeterminate"}

Contains(text, c) == \E i \in 1..Len(text) : text[i] = c

NullNode(token) == [kind |-> "NullNode", type |-> "NULL_T", token |-> token]

NumberNode(token, isNeg) ==
    [kind |-> "NumberNode",
     type |-> IF Contains(token.val, ".") THEN "FLOAT" ELSE "INT",
     token |-> token, isNeg |-> isNeg, val |-> token.val]

StringNode(token) ==
    [kind |-> "StringNode", type |-> "STRING", token |-> token, val |-> token.val]

BinaryOperation(left, right, op) ==
    [kind |-> "BinaryOperation", type |-> "UNKNOWN",
     left |-> left, right |-> right, op |-> op]

UnaryOperation(n, o) ==
    [kind |-> "UnaryOperation", type |-> "UNKNOWN", node |-> n, op |-> o]

VariableNode(n, v, t) ==
    [kind |-> "VariableNode", type |-> "UNKNOWN", name |-> n, val |-> v, own_type |-> t]

VariableCallNode(n) ==
    [kind |-> "VariableCallNode", type |-> "UNKNOWN", name |-> n]

PrototypeNode(name, a, t) ==
    [kind |-> "PrototypeNode", type |-> "UNKNOWN", name |-> name, args |-> a, own_type |-> t]

(***************************************************************************)
(* Symbol and Scope.  scs is the sequence of the scopes allocated so far,  *)
(* a Scope* is an index into it and 0 is nullptr; a name map is a function *)
(* from the names it holds.                                                *)
(***************************************************************************)
Symbol(type, val) == [type |-> type, val |-> val, is_const |-> FALSE, name |-> <<>>]

Scope(parent) == [vars |-> <<>>, functions |-> <<>>, parent |-> parent]

\* A declare_var that replaces the entry of a name it already holds.
declare_var_overwrite(scs, s, name, sym) ==
    [scs EXCEPT ![s].vars = (name :> sym) @@ @]

\* A declare_var on a Scope whose variables and functions are one map.
declare_var_one_namespace(scs, s, name, sym) ==
    IF name \in DOMAIN scs[s].vars
    THEN scs
    ELSE [scs EXCEPT ![s].vars = (name :> sym) @@ @,
                     ![s].functions = (name :> sym) @@ @]

declare_var(scs, s, name, sym) ==
    IF name \in DOMAIN scs[s].vars
    THEN scs
    ELSE [scs EXCEPT ![s].vars = (name :> sym) @@ @]

\* A get_var that asks the parent before the scope itself.
RECURSIVE get_var_outermost(_, _, _)
get_var_outermost(scs, s, name) ==
    LET outer == IF scs[s].parent /= 0
                 THEN get_var_outermost(scs, scs[s].parent, name)
                 ELSE nullptr
    IN  IF outer /= nullptr \/ name \notin DOMAIN scs[s].vars
        THEN outer
        ELSE scs[s].vars[name]

RECURSIVE get_var(_, _, _)
get_var(scs, s, name) ==
    IF name \in DOMAIN scs[s].vars
    THEN scs[s].vars[name]
    ELSE IF scs[s].parent /= 0
    THEN get_var(scs, scs[s].parent, name)
    ELSE nullptr

\* A declare_function that replaces the entry of a name it already holds.
declare_function_overwrite(scs, s, name, sym) ==
    [scs EXCEPT ![s].functions = (name :> sym) @@ @]

declare_function(scs, s, name, sym) ==
    IF name \in DOMAIN scs[s].functions
    THEN scs
    ELSE [scs EXCEPT ![s].functions = (name :> sym) @@ @]

RECURSIVE get_function(_, _, _)
get_function(scs, s, name) ==
    IF name \in DOMAIN scs[s].functions
    THEN scs[s].functions[name]
    ELSE IF scs[s].parent /= 0
    THEN get_function(scs, scs[s].parent, name)
    ELSE nullptr

(***************************************************************************)
(* The Parser.  P is the record of the Parser's fields index, column,      *)
(* line, scopes and current_scope during one call of parse_expr, with      *)
(* status: "ok", "crashed" (the process has ended in a fault) or "fn_body" *)
(* (control is in the loop of lines 474-477).  Every parse function gives  *)
(* [P, node]: the fields after it and the pointer it returns.              *)
(*                                                                         *)
(* The code has undefined and unspecified behaviour; u fixes its outcome:  *)
(*   u.deref     reading ->type through a null or indeterminate pointer:   *)
(*               "crash", or "indeterminate": the read yields a value      *)
(*               that need not be any Type;                                *)
(*   u.noreturn  parse_factor ending without a return statement: "crash",  *)
(*               or the pointer the caller receives, "nullptr" or          *)
(*               "indeterminate";                                          *)
(*   u.args      the order in which the two arguments of Symbol's          *)
(*               constructor are initialized at line 378: "ltr" or "rtl";  *)
(*   u.loop      the loop of lines 474-477, which has no side effect and   *)
(*               never ends: "spin", or "elided" (the compiler may assume  *)
(*               it terminates).                                           *)
(***************************************************************************)
Outcomes ==
    [deref : {"crash", "indeterminate"},
     noreturn : {"crash", "nullptr", "indeterminate"},
     args : {"ltr", "rtl"},
     loop : {"spin", "elided"}]

Ret(P, node) == [P |-> P, node |-> node]

Crash(P) == Ret([P EXCEPT !.status = "crashed"], nullptr)

\* A next_token that moves index on at the end of the tokens as well.
next_token_past_end(toks, P) ==
    IF P.index < Len(toks)
    THEN [tok |-> toks[P.index + 1], P |-> [P EXCEPT !.index = P.index + 1]]
    ELSE [tok |-> Token("T_EOF", <<>>, P.column, P.line),
          P |-> [P EXCEPT !.index = P.index + 1]]

\* Parser::next_token: [tok, P].
next_token(toks, P) ==
    IF P.index < Len(toks)
    THEN LET token == toks[P.index + 1]
         IN  [tok |-> token,
              P |-> [P EXCEPT !.index = P.index + 1,
                              !.column = IF token.type = "NEWLINE"
                                         THEN 1 ELSE P.column + Len(token.val),
                              !.line = IF token.type = "NEWLINE"
                                       THEN P.line + 1 ELSE P.line]]
    ELSE [tok |-> Token("T_EOF", <<>>, P.column, P.line), P |-> P]

\* Parser::peek_next
peek_token(toks, P) ==
    IF P.index >= Len(toks)
    THEN Token("T_EOF", <<>>, P.column, P.line)
    ELSE toks[P.index + 1]

\* parse_factor reaching its end without a return statement.
NoReturn(P, u) ==
    IF u.noreturn = "crash"
    THEN Crash(P)
    ELSE Ret(P, IF u.noreturn = "nullptr" THEN nullptr ELSE Indeterminate)

\* The chain of comparisons that maps a type name to a Type.
MapType(val) ==
    IF val = <<"i", "n", "t">> THEN "INT"
    ELSE IF val = <<"f", "l", "o", "a", "t">> THEN "FLOAT"
    ELSE IF val = <<"b", "o", "o", "l">> THEN "BOOL"
    ELSE IF val = <<"s", "t", "r", "i", "n", "g">> THEN "STRING"
    ELSE IF val = <<"n", "u", "l", "l">> THEN "NULL_T"
    ELSE "UNKNOWN"

\* The parameter loop of the fn form: [P, params].
RECURSIVE ParamLoop(_, _, _)
ParamLoop(toks, P, params) ==
    IF peek_token(toks, P).type /= "RPAREN" /\ peek_token(toks, P).type /= "T_EOF"
    THEN LET param_name == next_token(toks, P)
             colon      == next_token(toks, param_name.P)
             type_token == next_token(toks, colon.P)
             param_type == MapType(type_token.tok.val)
             P3         == type_token.P
             P4         == IF peek_token(toks, P3).type = "COMMA"
                           THEN next_token(toks, P3).P ELSE P3
         IN  ParamLoop(toks, P4,
                       Append(params, VariableNode(param_name.tok.val, nullptr, param_type)))
    ELSE [P |-> P, params |-> params]

\* The fn form of parse_factor, entered with the keyword consumed.
FnForm(toks, P, u) ==
    LET name           == next_token(toks, P)
        lparen         == next_token(toks, name.P)
        pl             == ParamLoop(toks, lparen.P, <<>>)
        rparen         == next_token(toks, pl.P)
        colon          == next_token(toks, rparen.P)
        ret_type_token == next_token(toks, colon.P)
        ret_type       == MapType(ret_type_token.tok.val)
        proto          == PrototypeNode(name.tok.val, pl.params, ret_type)
        P1             == ret_type_token.P
        P2             == next_token(toks, P1).P
        sym            == Symbol(ret_type, nullptr)
    IN  IF peek_token(toks, P1).type = "SEMICOLON"
        THEN Ret([P2 EXCEPT !.scopes =
                      declare_function(P2.scopes, P2.current_scope, name.tok.val, sym)],
                 proto)
        ELSE IF peek_token(toks, P1).type = "LBRACE"
        THEN LET declared == declare_var(P2.scopes, P2.current_scope, name.tok.val, sym)
                 pushed   == Append(declared, Scope(P2.current_scope))
                 inside   == [P2 EXCEPT !.scopes = pushed,
                                         !.current_scope = Len(pushed)]
             IN  IF u.loop = "spin"
                 THEN Ret([inside EXCEPT !.status = "fn_body"], nullptr)
                 ELSE Ret([inside EXCEPT !.current_scope =
                               pushed[inside.current_scope].parent],
                          nullptr)
        ELSE NoReturn(P1, u)

RECURSIVE parse_expr(_, _, _)
RECURSIVE parse_term(_, _, _)
RECURSIVE parse_factor(_, _, _)

\* The var form after its initializer: r is what parse_expr returned.
\* In Symbol sym(val_node->type, std::move(val_node)) the read is through
\* val_node as parse_expr returned it, or, when the move is done first,
\* through the null pointer the move leaves.
VarDeclare(name, r, u) ==
    LET val_node == r.node
        valid    == IsObject(val_node) /\ u.args = "ltr"
        type     == IF valid THEN val_node.type ELSE u.deref
        sym      == Symbol(type, val_node)
    IN  IF r.P.status /= "ok"
        THEN r
        ELSE IF ~valid /\ u.deref = "crash"
        THEN Crash(r.P)
        ELSE Ret([r.P EXCEPT !.scopes =
                      declare_var(r.P.scopes, r.P.current_scope, name.val, sym)],
                 \* val_node has been moved from: the node gets a null
                 \* initializer and the default type.
                 VariableNode(name.val, nullptr, "UNKNOWN"))

\* The var form of parse_factor, entered with the keyword consumed.
VarForm(toks, P, u) ==
    LET name == next_token(toks, P)
        eq   == next_token(toks, name.P)
    IN  VarDeclare(name.tok, parse_expr(toks, eq.P, u), u)

\* case TypeOfToken::KEYWORD, entered with token consumed; the LPAREN case
\* falls through to it.
KeywordCase(toks, P, token, u) ==
    LET keyword == token.val
    IN  IF keyword = <<"v", "a", "r">>
        THEN VarForm(toks, P, u)
        ELSE IF keyword = <<"n", "u", "l", "l">>
        THEN Ret(P, NullNode(token))
        ELSE IF keyword = <<"f", "n">>
        THEN FnForm(toks, P, u)
        ELSE NoReturn(P, u)

\* case TypeOfToken::IDENTIFIER
IdentifierCase(P, token, u) ==
    LET sym == get_var(P.scopes, P.current_scope, token.val)
        var == VariableCallNode(token.val)
    IN  IF sym = nullptr
        THEN IF u.deref = "crash"
             THEN Crash(P)
             ELSE Ret(P, [var EXCEPT !.type = u.deref])
        ELSE Ret(P, [var EXCEPT !.type = sym.type])

\* case TypeOfToken::LPAREN after its expression: r is what parse_expr
\* returned.  With the closing parenthesis present control falls through
\* to case KEYWORD.
ParenClose(toks, r, token, u) ==
    LET close == next_token(toks, r.P)
    IN  IF r.P.status /= "ok"
        THEN r
        ELSE IF close.tok.type /= "RPAREN"
        THEN Ret(close.P, r.node)
        ELSE KeywordCase(toks, close.P, token, u)

\* case TypeOfToken::LPAREN
ParenCase(toks, P, token, u) ==
    ParenClose(toks, parse_expr(toks, P, u), token, u)

\* case TypeOfToken::OP_MINUS after its operand: the constructor of
\* UnaryOperation reads node->type.
MinusNode(r, token, u) ==
    IF r.P.status /= "ok"
    THEN r
    ELSE IF ~IsObject(r.node) /\ u.deref = "crash"
    THEN Crash(r.P)
    ELSE Ret(r.P, UnaryOperation(r.node, token))

\* case TypeOfToken::OP_MINUS
MinusCase(toks, P, token, u) ==
    MinusNode(parse_factor(toks, P, u), token, u)

parse_factor(toks, P, u) ==
    LET n     == next_token(toks, P)
        token == n.tok
    IN  CASE token.type = "NUMBER"     -> Ret(n.P, NumberNode(token, FALSE))
          [] token.type = "STRING"     -> Ret(n.P, StringNode(token))
          [] token.type = "IDENTIFIER" -> IdentifierCase(n.P, token, u)
          [] token.type = "OP_MINUS"   -> MinusCase(toks, n.P, token, u)
          [] token.type = "LPAREN"     -> ParenCase(toks, n.P, token, u)
          [] token.type = "KEYWORD"    -> KeywordCase(toks, n.P, token, u)
          [] token.type = "COMMENT"    -> NoReturn(next_token(toks, n.P).P, u)
          [] OTHER                     -> NoReturn(n.P, u)

\* The loops of parse_term and parse_expr: left is what has been parsed so
\* far, [P, node], and ops the operators the loop goes on with.  The loop
\* body makes the BinaryOperation of left, the operator and right.
RECURSIVE BinaryLoop(_, _, _, _)
BinaryNext(toks, left, op, right, ops, u) ==
    BinaryLoop(toks, Ret(right.P, BinaryOperation(left.node, right.node, op)), ops, u)

BinaryLoop(toks, left, ops, u) ==
    IF left.P.status = "ok" /\ peek_token(toks, left.P).type \in ops
    THEN BinaryNext(toks, left, next_token(toks, left.P).tok,
                    IF "OP_TIMES" \in ops
                    THEN parse_factor(toks, next_token(toks, left.P).P, u)
                    ELSE parse_term(toks, next_token(toks, left.P).P, u),
                    ops, u)
    ELSE left

\* A parse_expr of one level: every operator joins factors.
parse_expr_one_level(toks, P, u) ==
    BinaryLoop(toks, parse_factor(toks, P, u),
               {"OP_PLUS", "OP_MINUS", "OP_TIMES", "OP_DIV"}, u)

parse_term(toks, P, u) ==
    BinaryLoop(toks, parse_factor(toks, P, u), {"OP_TIMES", "OP_DIV"}, u)

parse_expr(toks, P, u) ==
    BinaryLoop(toks, parse_term(toks, P, u), {"OP_PLUS", "OP_MINUS"}, u)

(***************************************************************************)
(* The token sequences the Parser is constructed with.  A token built by   *)
(* a caller has the constructor's default line and column, 0.              *)
(***************************************************************************)
Tk(type, val) == Token(type, val, 0, 0)

Num(val) == Tk("NUMBER", val)
Str(val) == Tk("STRING", val)
Id(val)  == Tk("IDENTIFIER", val)
Kw(val)  == Tk("KEYWORD", val)

T_var     == Kw(<<"v", "a", "r">>)
T_fn      == Kw(<<"f", "n">>)
T_null    == Kw(<<"n", "u", "l", "l">>)
T_equals  == Tk("OP_EQUALS", <<"=">>)
T_plus    == Tk("OP_PLUS", <<"+">>)
T_minus   == Tk("OP_MINUS", <<"-">>)
T_times   == Tk("OP_TIMES", <<"*">>)
T_div     == Tk("OP_DIV", <<"/">>)
T_lparen  == Tk("LPAREN", <<"(">>)
T_rparen  == Tk("RPAREN", <<")">>)
T_lbrace  == Tk("LBRACE", <<"{">>)
T_rbrace  == Tk("RBRACE", <<"}">>)
T_colon   == Tk("COLON", <<":">>)
T_comma   == Tk("COMMA", <<",">>)
T_semi    == Tk("SEMICOLON", <<";">>)
T_newline == Tk("NEWLINE", <<"[", "n", "e", "w", "l", "i", "n", "e", "]">>)

One    == Num(<<"1">>)
Two    == Num(<<"2">>)
Real   == Num(<<"2", ".", "5">>)
Hi     == Str(<<"h", "i">>)
X      == Id(<<"x">>)
Y      == Id(<<"y">>)
F      == Id(<<"f">>)

\* The type names of the fn form, and one that is none of them.
TypeNames ==
    { Id(<<"i", "n", "t">>), Id(<<"f", "l", "o", "a", "t">>), Id(<<"b", "o", "o", "l">>),
      Id(<<"s", "t", "r", "i", "n", "g">>), T_null, Id(<<"f", "o", "o">>) }

\* Expressions of k + 1 operands joined by k operators.
RECURSIVE Chains(_)
Chains(k) ==
    IF k = 0
    THEN {<<o>> : o \in {One, Real, Hi}}
    ELSE {c \o <<op, o>> : c \in Chains(k - 1),
                           op \in {T_plus, T_minus, T_times, T_div},
                           o \in {One, Real, Hi}}

ExprPrograms == UNION {Chains(k) : k \in 0..MaxOps}

\* Parenthesized, unclosed and negated expressions.
ParenPrograms ==
    UNION {{<<T_lparen>> \o e \o <<T_rparen>>, <<T_lparen>> \o e, <<T_minus>> \o e,
            <<One, T_times, T_lparen>> \o e \o <<T_rparen>>}
           : e \in Chains(0) \cup Chains(1)}

\* Parameter lists p1: t1, ..., pn: tn of the parameter names a, b, c, d.
ParamName(i) == Id(<<CASE i = 1 -> "a" [] i = 2 -> "b" [] i = 3 -> "c" [] OTHER -> "d">>)

RECURSIVE ParamTokens(_, _)
ParamTokens(types, i) ==
    IF i > Len(types)
    THEN <<>>
    ELSE (IF i > 1 THEN <<T_comma>> ELSE <<>>)
         \o <<ParamName(i), T_colon, types[i]>> \o ParamTokens(types, i + 1)

\* fn f(params): T;  and  fn f(params): T { }
FnPrograms ==
    UNION {{<<T_fn, F, T_lparen>> \o ParamTokens(types, 1)
                \o <<T_rparen, T_colon, ret>> \o tail
            : tail \in {<<T_semi>>, <<T_lbrace, T_rbrace>>}}
           : types \in BoundedSeq(TypeNames, MaxParams), ret \in TypeNames}

\* The statements of which the longer programs are made.
Statements ==
    { <<T_var, X, T_equals, One>>,
      <<T_var, X, T_equals, Hi>>,
      <<T_var, X, T_equals, One, T_plus, Two>>,
      <<T_var, X, T_equals, One, T_plus, Hi>>,
      <<T_var, X, T_equals, X>>,
      <<T_var, Y, T_equals, X>>,
      <<X>>,
      <<One, T_plus, Hi>>,
      <<T_null>>,
      <<T_newline>>,
      <<T_fn, F, T_lparen, T_rparen, T_colon, Id(<<"i", "n", "t">>), T_semi>>,
      <<T_fn, F, T_lparen, T_rparen, T_colon, Id(<<"f", "l", "o", "a", "t">>), T_semi>>,
      <<T_fn, X, T_lparen, T_rparen, T_colon, Id(<<"i", "n", "t">>), T_semi>>,
      <<T_fn, X, T_lparen, ParamName(1), T_colon, Id(<<"i", "n", "t">>), T_rparen,
        T_colon, Id(<<"i", "n", "t">>), T_lbrace, T_rbrace>>,
      <<T_fn, F, T_lparen, T_rparen, T_colon, Id(<<"i", "n", "t">>), T_lbrace,
        T_var, X, T_equals, Hi, T_rbrace>> }

RECURSIVE Flatten(_)
Flatten(ss) == IF ss = <<>> THEN <<>> ELSE Head(ss) \o Flatten(Tail(ss))

StatementPrograms == {Flatten(ss) : ss \in BoundedSeq(Statements, MaxStmts)}

\* 1 - 2 - 3 and 1 + 2 * 3
OneMinusTwoMinusThree == <<One, T_minus, Two, T_minus, Num(<<"3">>)>>

OnePlusTwoTimesThree == <<One, T_plus, Two, T_times, Num(<<"3">>)>>

ExamplePrograms == {OneMinusTwoMinusThree, OnePlusTwoTimesThree}

Programs ==
    ExprPrograms \cup ParenPrograms \cup FnPrograms \cup StatementPrograms
        \cup ExamplePrograms

\* Lexer state while no Lexer exists.
LexerIdle ==
    /\ m_source = <<>>
    /\ m_index = 0
    /\ m_line = 1
    /\ m_column = 1
    /\ lexer_pc = "idle"
    /\ lexer_ret = "none"
    /\ val_read = NoRead

global_scope == 1

\* A Parser constructed on a token sequence, parse() called.
InitParser ==
    /\ tokens \in Programs
    /\ index = 0
    /\ column = 1
    /\ line = 1
    /\ scopes = <<Scope(0)>>
    /\ current_scope = global_scope
    /\ nodes = <<>>
    /\ parser_pc = "parse"
    /\ call = NoCall
    /\ LexerIdle

Fields ==
    [index |-> index, column |-> column, line |-> line, scopes |-> scopes,
     current_scope |-> current_scope, status |-> "ok"]

SetFields(P) ==
    /\ index' = P.index
    /\ column' = P.column
    /\ line' = P.line
    /\ scopes' = P.scopes
    /\ current_scope' = P.current_scope

\* The rest of an iteration of the loop of parse, r being what parse_expr
\* returned.
ParseIter(r) ==
    IF r.P.status = "ok"
    THEN /\ nodes' = Append(nodes, r.node)
         /\ SetFields(IF peek_token(tokens, r.P).type = "NEWLINE"
                      THEN next_token(tokens, r.P).P ELSE r.P)
         /\ parser_pc' = "parse"
    ELSE /\ nodes' = nodes
         /\ SetFields(r.P)
         /\ parser_pc' = r.P.status

\* One iteration of the loop of Parser::parse: parse_expr, the node
\* pushed, one NEWLINE consumed.  A fault ends the process, and the loop
\* of lines 474-477 keeps control inside parse_expr.
ParseStep ==
    /\ parser_pc = "parse"
    /\ peek_token(tokens, Fields).type /= "T_EOF"
    /\ \E u \in Outcomes : ParseIter(parse_expr(tokens, Fields, u))
    /\ UNCHANGED <<tokens, lexer_vars, call>>

\* The loop of parse ends at the end of the tokens: return nodes.
ParseReturn ==
    /\ parser_pc = "parse"
    /\ peek_token(tokens, Fields).type = "T_EOF"
    /\ parser_pc' = "returned"
    /\ UNCHANGED <<tokens, lexer_vars, index, column, line, scopes, current_scope, nodes, call>>

\* One iteration of the loop of lines 474-477: its condition,
\* peek_next().type != RBRACE || peek_next().type != T_EOF, holds of every
\* token, and its body is empty.
FnBodyLoop ==
    /\ parser_pc = "fn_body"
    /\ (peek_token(tokens, Fields).type /= "RBRACE"
        \/ peek_token(tokens, Fields).type /= "T_EOF")
    /\ UNCHANGED vars

NextParser == ParseStep \/ ParseReturn \/ FnBodyLoop

SpecParser == InitParser /\ [][NextParser]_vars

\* ParseStep changes parser_pc or nodes, so it is enabled exactly where its
\* guard holds.
ParseStepEnabled ==
    parser_pc = "parse" /\ peek_token(tokens, Fields).type /= "T_EOF"

\* The parser is one thread that runs whenever it can take a step: weak
\* fairness of each step, that of ParseStep written out over its guard.
FairSpecParser ==
    /\ SpecParser
    /\ WF_vars(ParseReturn)
    /\ WF_vars(FnBodyLoop)
    /\ ([]<>(~ParseStepEnabled) \/ []<><<ParseStep>>_vars)

(***************************************************************************)
(* Claims about the Parser, checked under SpecParser.                      *)
(***************************************************************************)
ParseReturned == parser_pc = "returned"

\* The Type of a NUMBER or STRING token.
LiteralType(token) ==
    IF token.type = "STRING" THEN "STRING"
    ELSE IF Contains(token.val, ".") THEN "FLOAT" ELSE "INT"

\* The node of a NUMBER or STRING token.
LiteralNode(token) ==
    IF token.type = "STRING" THEN StringNode(token) ELSE NumberNode(token, FALSE)

\* var <name> = <literal>
IsVarLiteral(toks) ==
    /\ Len(toks) = 4
    /\ toks[1] = T_var
    /\ toks[2].type = "IDENTIFIER"
    /\ toks[3] = T_equals
    /\ toks[4].type \in {"NUMBER", "STRING"}

\* C6: parsing var <name> = <expr> returns exactly one variable-declaration
\* node whose name is <name>, whose type is the Type of the initializer
\* and which holds the initializer node.
C6_VarDeclNode ==
    (ParseReturned /\ IsVarLiteral(tokens)) =>
        /\ Len(nodes) = 1
        /\ nodes[1].kind = "VariableNode"
        /\ nodes[1].name = tokens[2].val
        /\ nodes[1].own_type = LiteralType(tokens[4])
        /\ nodes[1].val = LiteralNode(tokens[4])

VarX1 == <<T_var, X, T_equals, One>>

VarXHi == <<T_var, X, T_equals, Hi>>

FnWithVarX ==
    <<T_fn, F, T_lparen, T_rparen, T_colon, Id(<<"i", "n", "t">>), T_lbrace,
      T_var, X, T_equals, Hi, T_rbrace>>

\* C7: a second var x in the same scope is reported as a redeclaration, so
\* parse does not return with the second declaration accepted like the
\* first; a var x inside a function body is declared in the child scope
\* and leaves the outer x as it was.
C7_Redeclaration ==
    /\ (ParseReturned /\ tokens = VarX1 \o VarXHi)
           => ~(Len(nodes) = 2 /\ nodes[2].kind = "VariableNode")
    /\ (ParseReturned /\ tokens = VarX1 \o FnWithVarX)
           => /\ Len(scopes) = 2
              /\ scopes[2].parent = global_scope
              /\ <<"x">> \in DOMAIN scopes[2].vars
              /\ scopes[2].vars[<<"x">>].type = "STRING"
              /\ scopes[global_scope].vars[<<"x">>].type = "INT"

\* C8: once the body of a function definition is entered (the child scope
\* pushed), the parser eventually finishes the body and current_scope is
\* again the scope that was current before the fn keyword.  Checked under
\* FairSpecParser.
C8_BodyFinishes ==
    (parser_pc = "fn_body") ~> (parser_pc /= "fn_body" /\ current_scope = global_scope)

\* The Type a type name stands for.
NamedType(val) ==
    CASE val = <<"i", "n", "t">> -> "INT"
      [] val = <<"f", "l", "o", "a", "t">> -> "FLOAT"
      [] val = <<"b", "o", "o", "l">> -> "BOOL"
      [] val = <<"s", "t", "r", "i", "n", "g">> -> "STRING"
      [] val = <<"n", "u", "l", "l">> -> "NULL_T"
      [] OTHER -> "UNKNOWN"

\* The number of tokens of a list of k parameters, commas included.
ParamsLen(k) == IF k = 0 THEN 0 ELSE 4 * k - 1

IsTypeName(token) == token.type = "IDENTIFIER" \/ token = T_null

\* toks holds, from offset i, a prototype fn name(p1: t1, ..., pk: tk): T;
IsPrototypeAt(toks, i, k) ==
    LET b == i + 3 + ParamsLen(k)
    IN  /\ Len(toks) >= b + 4
        /\ toks[i + 1] = T_fn
        /\ toks[i + 2].type = "IDENTIFIER"
        /\ toks[i + 3] = T_lparen
        /\ \A j \in 1..k :
              /\ toks[i + 4 * j].type = "IDENTIFIER"
              /\ toks[i + 4 * j + 1] = T_colon
              /\ IsTypeName(toks[i + 4 * j + 2])
              /\ j < k => toks[i + 4 * j + 3] = T_comma
        /\ toks[b + 1] = T_rparen
        /\ toks[b + 2] = T_colon
        /\ IsTypeName(toks[b + 3])
        /\ toks[b + 4] = T_semi

\* The prototype node of that prototype: its name, its parameters in source
\* order with their types, its return type.
PrototypeAt(toks, i, k) ==
    [name |-> toks[i + 2].val,
     args |-> [j \in 1..k |-> [name |-> toks[i + 4 * j].val,
                               type |-> NamedType(toks[i + 4 * j + 2].val)]],
     type |-> NamedType(toks[i + 3 + ParamsLen(k) + 3].val)]

\* What a node shows of a prototype.
Shown(node) ==
    IF node.kind /= "PrototypeNode"
    THEN [name |-> <<>>, args |-> <<>>, type |-> "none"]
    ELSE [name |-> node.name,
          args |-> [j \in 1..Len(node.args) |->
                       [name |-> node.args[j].name, type |-> node.args[j].own_type]],
          type |-> node.own_type]

\* A step of parse that starts at a prototype opens no scope and leaves
\* current_scope, every variable namespace and every other function
\* namespace alone.
PrototypeScopes ==
    /\ current_scope' = current_scope
    /\ Len(scopes') = Len(scopes)
    /\ \A s \in 1..Len(scopes) :
          /\ scopes'[s].vars = scopes[s].vars
          /\ scopes'[s].parent = scopes[s].parent
          /\ s /= current_scope => scopes'[s].functions = scopes[s].functions

\* That step returns the node of the prototype.
PrototypeNodeReturned(k) ==
    /\ parser_pc' = "parse"
    /\ Len(nodes') = Len(nodes) + 1
    /\ SubSeq(nodes', 1, Len(nodes)) = nodes
    /\ Shown(nodes'[Len(nodes) + 1]) = PrototypeAt(tokens, index, k)

C10_TypeMismatch ==
    (/\ ParseReturned
     /\ tokens \in Chains(1)
     /\ LiteralType(tokens[1]) /= LiteralType(tokens[3]))
        => ~(/\ Len(nodes) = 1
             /\ nodes[1].kind = "BinaryOperation"
             /\ nodes[1].type = "UNKNOWN")

\* C11: an identifier that no scope on the chain declares is reported as
\* undeclared at its point of use, and the failed lookup is never
\* dereferenced: with the first token an identifier, which the empty global
\* scope cannot declare, parse neither ends in a fault nor returns a
\* variable-call node for it.
C11_UndeclaredReported ==
    (tokens /= <<>> /\ tokens[1].type = "IDENTIFIER")
        => /\ parser_pc /= "crashed"
           /\ nodes /= <<>> => nodes[1].kind /= "VariableCallNode"

\* C12: for every finite token sequence parse terminates: under
\* FairSpecParser every run reaches the end of parse (its return, or the
\* fault that ends the process).
C12_ParseTerminates == <>(parser_pc \in {"returned", "crashed"})

\* C12, the rest: parse returns only with the token cursor at the end of
\* the sequence, and every returned node was pushed by one iteration.
C12_ReturnsAtEnd == ParseReturned => (index = Len(tokens) /\ Len(nodes) <= Len(tokens))

(***************************************************************************)
(* Scope used on its own: a user that declares and looks up one name in a  *)
(* chain of scopes, opening a child scope and going back to the parent as  *)
(* the Parser does at lines 473 and 479.  call keeps the last call, its    *)
(* arguments, what it returned and the scopes as they were before it.      *)
(***************************************************************************)
MaxScopes == 3

ScopeNames == {<<"x">>}

ScopeTypes == {"INT", "STRING"}

Call(op, name, type, ret) ==
    [op |-> op, scope |-> current_scope, name |-> name, type |-> type,
     ret |-> ret, before |-> scopes]

\* One global scope, as a Parser holds from its construction on.
InitScope ==
    /\ scopes = <<Scope(0)>>
    /\ current_scope = global_scope
    /\ call = NoCall
    /\ tokens = <<>>
    /\ index = 0
    /\ column = 1
    /\ line = 1
    /\ nodes = <<>>
    /\ parser_pc = "idle"
    /\ LexerIdle

ScopeFrame == UNCHANGED <<tokens, lexer_vars, index, column, line, nodes, parser_pc>>

\* current_scope->declare_var(name, Symbol(type, nullptr))
DeclareVar ==
    \E name \in ScopeNames, type \in ScopeTypes :
        /\ scopes' = declare_var(scopes, current_scope, name, Symbol(type, nullptr))
        /\ call' = Call("declare_var", name, type, nullptr)
        /\ UNCHANGED current_scope
        /\ ScopeFrame

\* current_scope->declare_function(name, Symbol(type, nullptr))
DeclareFunction ==
    \E name \in ScopeNames, type \in ScopeTypes :
        /\ scopes' = declare_function(scopes, current_scope, name, Symbol(type, nullptr))
        /\ call' = Call("declare_function", name, type, nullptr)
        /\ UNCHANGED current_scope
        /\ ScopeFrame

\* current_scope->get_var(name)
GetVar ==
    \E name \in ScopeNames :
        /\ call' = Call("get_var", name, "none", get_var(scopes, current_scope, name))
        /\ UNCHANGED <<scopes, current_scope>>
        /\ ScopeFrame

\* current_scope->get_function(name)
GetFunction ==
    \E name \in ScopeNames :
        /\ call' = Call("get_function", name, "none",
                        get_function(scopes, current_scope, name))
        /\ UNCHANGED <<scopes, current_scope>>
        /\ ScopeFrame

\* current_scope = new Scope(current_scope)
NewScope ==
    /\ Len(scopes) < MaxScopes
    /\ scopes' = Append(scopes, Scope(current_scope))
    /\ current_scope' = Len(scopes) + 1
    /\ call' = Call("Scope", <<>>, "none", nullptr)
    /\ ScopeFrame

\* current_scope = current_scope->parent
LeaveScope ==
    /\ scopes[current_scope].parent /= 0
    /\ current_scope' = scopes[current_scope].parent
    /\ call' = Call("parent", <<>>, "none", nullptr)
    /\ UNCHANGED scopes
    /\ ScopeFrame

NextScope ==
    DeclareVar \/ DeclareFunction \/ GetVar \/ GetFunction \/ NewScope \/ LeaveScope

SpecScope == InitScope /\ [][NextScope]_vars

(***************************************************************************)
(* Claims about Scope, checked under SpecScope.                            *)
(***************************************************************************)
IsDeclare == call.op \in {"declare_var", "declare_function"}

IsGet == call.op \in {"get_var", "get_function"}

\* The namespace of scope sc the last call works on.
Namespace(sc) ==
    IF call.op \in {"declare_var", "get_var"} THEN sc.vars ELSE sc.functions

\* The scopes from s to the root, nearest first.
RECURSIVE Path(_, _)
Path(scs, s) == IF s = 0 THEN <<>> ELSE <<s>> \o Path(scs, scs[s].parent)

\* C13: a declare_var / declare_function of a name the current scope's
\* namespace already holds leaves every scope as it was, the first symbol
\* and its type kept; of a name it does not hold, one that an ancestor may
\* hold, it inserts the symbol into the current scope and leaves every
\* other scope, the ancestors included, as it was.
C13_DeclareFrame ==
    IsDeclare =>
        LET s == call.scope
        IN  IF call.name \in DOMAIN Namespace(call.before[s])
            THEN scopes = call.before
            ELSE /\ call.name \in DOMAIN Namespace(scopes[s])
                 /\ Namespace(scopes[s])[call.name].type = call.type
                 /\ Len(scopes) = Len(call.before)
                 /\ \A a \in 1..Len(scopes) : a /= s => scopes[a] = call.before[a]

\* C13's case: the last call declared, in a child scope, a name that the
\* scope already held with another type, a name it had inserted while its
\* parent held it too.
C13_Witness ==
    /\ IsDeclare
    /\ scopes[call.scope].parent /= 0
    /\ call.name \in DOMAIN Namespace(call.before[call.scope])
    /\ Namespace(call.before[call.scope])[call.name].type /= call.type
    /\ call.name \in DOMAIN Namespace(scopes[scopes[call.scope].parent])
    /\ Namespace(scopes[scopes[call.scope].parent])[call.name].type = call.type

\* The positions on the path from the scope of the last call to the root
\* whose scope holds the name of the call in its namespace.
Declaring(scs) ==
    LET path == Path(scs, call.scope)
    IN  {i \in 1..Len(path) : call.name \in DOMAIN Namespace(scs[path[i]])}

\* The least position of a non-empty set of positions.
Nearest(positions) == CHOOSE i \in positions : \A j \in positions : i <= j

\* C14: after any sequence of declarations, get_var / get_function returns
\* the entry of the nearest scope on the path current, parent, ..., root
\* that declares the name in that namespace, and no symbol exactly when no
\* scope on the path declares it.
C14_NearestDeclaration ==
    IsGet =>
        LET path == Path(scopes, call.scope)
        IN  IF Declaring(scopes) = {}
            THEN call.ret = nullptr
            ELSE /\ call.ret /= nullptr
                 /\ call.ret =
                        Namespace(scopes[path[Nearest(Declaring(scopes))]])[call.name]

\* C14's case: a lookup from a scope that does not hold the name, whose
\* parent and whose parent's parent hold it with different types; the
\* parent's entry is the one returned.
C14_Witness ==
    /\ IsGet
    /\ Len(Path(scopes, call.scope)) = 3
    /\ Declaring(scopes) = {2, 3}
    /\ LET path == Path(scopes, call.scope)
       IN  /\ Namespace(scopes[path[2]])[call.name].type
                 /= Namespace(scopes[path[3]])[call.name].type
           /\ call.ret = Namespace(scopes[path[2]])[call.name]

\* C15: declare_var never changes the result of any get_function and
\* declare_function never changes the result of any get_var, from any
\* scope and for any name.
C15_IndependentNamespaces ==
    /\ call.op = "declare_var" =>
           \A s \in 1..Len(scopes), name \in ScopeNames :
               get_function(scopes, s, name) = get_function(call.before, s, name)
    /\ call.op = "declare_function" =>
           \A s \in 1..Len(scopes), name \in ScopeNames :
               get_var(scopes, s, name) = get_var(call.before, s, name)

\* C15's case: a variable has just been declared under the name that the
\* same scope holds as a function of another type, so the scope holds one
\* name in both namespaces.
C15_Witness ==
    /\ call.op = "declare_var"
    /\ call.name \notin DOMAIN call.before[call.scope].vars
    /\ call.name \in DOMAIN scopes[call.scope].vars
    /\ call.name \in DOMAIN scopes[call.scope].functions
    /\ scopes[call.scope].functions[call.name].type /= call.type
    /\ get_var(scopes, call.scope, call.name).type = call.type

(***************************************************************************)
(* display, the text a node shows of itself.                               *)
(***************************************************************************)
type_to_str(t) ==
    CASE t = "INT"    -> <<"i", "n", "t">>
      [] t = "FLOAT"  -> <<"f", "l", "o", "a", "t">>
      [] t = "STRING" -> <<"s", "t", "r", "i", "n", "g">>
      [] t = "BOOL"   -> <<"b", "o", "o", "l">>
      [] t = "NULL_T" -> <<"n", "u", "l", "l">>
      [] OTHER        -> <<"u", "n", "k", "n", "o", "w", "n", "_", "t", "y", "p", "e">>

\* What a call of display through a null or indeterminate pointer gives:
\* no text, the call is undefined.
NoDisplay == <<NUL>>

\* VariableNode::display
VariableDisplay(node, val_display) ==
    IF node.val /= nullptr
    THEN type_to_str(node.own_type) \o node.name \o <<" ", "=", " ">> \o val_display
    ELSE type_to_str(node.own_type) \o node.name

\* The loop of PrototypeNode::display from argument i on.
RECURSIVE ArgsDisplay(_, _)
ArgsDisplay(args, i) ==
    IF i > Len(args)
    THEN <<>>
    ELSE VariableDisplay(args[i], <<>>)
         \o (IF i < Len(args) THEN <<",", " ">> ELSE <<>>)
         \o ArgsDisplay(args, i + 1)

\* BinaryOperation::display
BinaryDisplay(left_display, op, right_display) ==
    <<"(">> \o left_display \o <<" ">> \o op.val \o <<" ">> \o right_display \o <<")">>

RECURSIVE display(_)
display(node) ==
    CASE node.kind = "NullNode"         -> <<"n", "u", "l", "l">>
      [] node.kind = "NumberNode"       -> node.val
      [] node.kind = "StringNode"       -> node.val
      [] node.kind = "BinaryOperation"  ->
             BinaryDisplay(display(node.left), node.op, display(node.right))
      [] node.kind = "UnaryOperation"   -> node.op.val \o display(node.node)
      [] node.kind = "VariableNode"     ->
             VariableDisplay(node, IF node.val /= nullptr THEN display(node.val) ELSE <<>>)
      [] node.kind = "VariableCallNode" -> node.name
      [] node.kind = "PrototypeNode"    ->
             type_to_str(node.own_type) \o <<" ", "f", "u", "n", "c", "t", "i", "o", "n", " ">>
                 \o node.name \o <<"(">> \o ArgsDisplay(node.args, 1) \o <<")">>
      [] OTHER                          -> NoDisplay

\* The text of a product of the operands at the odd positions a..n of
\* toks, each operator * or /, grouped to the left.
RECURSIVE TermText(_, _, _)
TermText(toks, a, n) ==
    IF n = a
    THEN toks[a].val
    ELSE <<"(">> \o TermText(toks, a, n - 2) \o <<" ">> \o toks[n - 1].val
             \o <<" ">> \o toks[n].val \o <<")">>

\* The positions of + and - among the first n tokens.
Additive(toks, n) == {k \in 1..n : toks[k].type \in {"OP_PLUS", "OP_MINUS"}}

\* The text of the expression made of the first n tokens: its last + or -
\* joins all that precedes it to the product that follows it.
RECURSIVE ExprText(_, _)
ExprText(toks, n) ==
    IF Additive(toks, n) = {}
    THEN TermText(toks, 1, n)
    ELSE LET k == CHOOSE i \in Additive(toks, n) : \A j \in Additive(toks, n) : j <= i
         IN  <<"(">> \o ExprText(toks, k - 1) \o <<" ">> \o toks[k].val
                 \o <<" ">> \o TermText(toks, k + 1, n) \o <<")">>

\* C16: for an expression of operands joined by + - * /, the node nests *
\* and / below + and -, and operators of one level group to the left: parse
\* returns one node whose display is the fully parenthesized text.
C16_Precedence ==
    (ParseReturned /\ tokens \in ExprPrograms \cup ExamplePrograms)
        => /\ Len(nodes) = 1
           /\ display(nodes[1]) = ExprText(tokens, Len(tokens))

\* C16's case: 1 + 2 * 3 parsed and shown as (1 + (2 * 3)).
C16_Witness ==
    /\ ParseReturned
    /\ tokens = OnePlusTwoTimesThree
    /\ Len(nodes) = 1
    /\ display(nodes[1])
           = <<"(", "1", " ", "+", " ", "(", "2", " ", "*", " ", "3", ")", ")">>

\* ( e )
Closed(e) == <<T_lparen>> \o e \o <<T_rparen>>

\* ( e
Unclosed(e) == <<T_lparen>> \o e

\* C17: a parenthesized factor ( e ) whose ) is present parses to the node
\* of e with the ) consumed.
C17_ClosedGivesInner ==
    \A e \in Chains(0) \cup Chains(1) :
        tokens = Closed(e)
            => /\ parser_pc /= "crashed"
               /\ ParseReturned
                      => /\ index = Len(tokens)
                         /\ Len(nodes) = 1
                         /\ IsObject(nodes[1])
                         /\ display(nodes[1]) = ExprText(e, Len(e))

\* C17: when the ) is missing the parser reports an error instead of
\* returning a node for e.
C17_UnclosedReported ==
    \A e \in Chains(0) \cup Chains(1) :
        (tokens = Unclosed(e) /\ ParseReturned) => nodes = <<>>

\* C17, both halves.
C17_Parenthesized == C17_ClosedGivesInner /\ C17_UnclosedReported

(***************************************************************************)
(* More claims about the Lexer, checked under SpecLexer.                   *)
(***************************************************************************)
\* Text that is one identifier-shaped lexeme: a letter or _ followed by
\* letters, digits and _.
IsWord(text) ==
    /\ text /= <<>>
    /\ isalpha(text[1]) \/ text[1] = "_"
    /\ \A i \in 2..Len(text) : isalnum(text[i]) \/ text[i] = "_"

\* C18: an identifier-shaped lexeme is classified KEYWORD if and only if
\* its whole text is one of the 24 reserved words, and IDENTIFIER
\* otherwise: a source that is one such lexeme gives one token of that
\* type.
C18_KeywordExactMatch ==
    (Returned /\ IsWord(m_source))
        => /\ lexer_ret = "nullopt"
           /\ Len(tokens) = 1
           /\ tokens[1].type = IF m_source \in keywords THEN "KEYWORD" ELSE "IDENTIFIER"

\* C18's case: forEach, which begins with the reserved word for, has been
\* scanned as an IDENTIFIER.
C18_Witness ==
    /\ Returned
    /\ m_source = <<"f", "o", "r", "E", "a", "c", "h">>
    /\ Len(tokens) = 1
    /\ tokens[1].type = "IDENTIFIER"

IsDot(c) == c = "."

ThreeOneFourFive == <<"3", ".", "1", "4", ".", "5">>

\* The types of the tokens, in order.
TokenTypes == [i \in 1..Len(tokens) |-> tokens[i].type]

\* C19, the scan: a second dot ends the NUMBER token without error and
\* starts what follows, so 3.14.5 gives a NUMBER, then a PERIOD and a
\* NUMBER for .5
C19_SecondDotEndsNumber ==
    (Returned /\ m_source = ThreeOneFourFive)
        => /\ lexer_ret = "nullopt"
           /\ TokenTypes = <<"NUMBER", "PERIOD", "NUMBER">>

\* C19, the text: the text of a NUMBER token is digits and at most one
\* dot, and that of the first token of 3.14.5 is 3.14
C19_NumberText ==
    (val_read /= NoRead /\ tokens[val_read.at].type = "NUMBER")
        => /\ val_read.outcome /= "fault"
           /\ \A i \in 1..Len(val_read.text) :
                  isdigit(val_read.text[i]) \/ IsDot(val_read.text[i])
           /\ Count(val_read.text, IsDot) <= 1
           /\ (m_source = ThreeOneFourFive /\ val_read.at = 1)
                  => val_read.text = <<"3", ".", "1", "4">>

\* C19: a numeric literal takes digits and at most the first dot: no
\* NUMBER token's text holds two dots, a second dot ends the token without
\* error, and 3.14.5 yields the NUMBER token 3.14 and then the tokens of .5
C19_NumberLiteral == C19_SecondDotEndsNumber /\ C19_NumberText

\* A source that is one double-quoted literal with its closing quote.
Quoted(src) ==
    /\ Len(src) >= 2
    /\ src[1] = "\""
    /\ src[Len(src)] = "\""
    /\ \A i \in 2..(Len(src) - 1) : src[i] /= "\""

\* C20, the scan: a double-quoted literal with its closing quote
\* tokenizes without error to exactly one STRING token.
C20_OneStringToken ==
    (Returned /\ Quoted(m_source))
        => /\ lexer_ret = "nullopt"
           /\ TokenTypes = <<"STRING">>

\* C20, the text: the text of that token is the characters between the
\* quotes, verbatim.
C20_StringText ==
    (val_read /= NoRead /\ Quoted(m_source))
        => /\ val_read.outcome /= "fault"
           /\ val_read.text = SubSeq(m_source, 2, Len(m_source) - 1)

\* C20: a double-quoted literal that has a closing quote tokenizes without
\* error to exactly one STRING token whose text is the characters between
\* the quotes, verbatim with no escape decoding.
C20_StringLiteral == C20_OneStringToken /\ C20_StringText

(***************************************************************************)
(* Comments, unknown characters and the cursor, checked under SpecLexer.   *)
(***************************************************************************)
\* m_line and m_column as the claims state them after k characters of src
\* are consumed: one more than the newlines among them, and one more than
\* the characters after the last of those newlines.
NewlinesIn(src, k) == Cardinality({i \in 1..k : src[i] = "\n"})

SinceNewline(src, k) ==
    Cardinality({i \in 1..k : \A j \in i..k : src[j] /= "\n"})

LineComment(src) == Len(src) >= 2 /\ src[1] = "/" /\ src[2] = "/"

BlockComment(src) == Len(src) >= 2 /\ src[1] = "/" /\ src[2] = "*"

\* The last position of the line that src begins with.
LineEnd(src) ==
    CHOOSE k \in 2..Len(src) :
        /\ \A i \in 3..k : src[i] /= "\n"
        /\ k = Len(src) \/ src[k + 1] = "\n"

\* The positions after the opening /* at which a */ begins.
Closers(src) == {i \in 3..(Len(src) - 1) : src[i] = "*" /\ src[i + 1] = "/"}

FirstCloser(src) == CHOOSE i \in Closers(src) : \A j \in Closers(src) : i <= j

\* Whether token was appended with exactly the first k characters consumed.
AppendedAfter(token, src, k) ==
    /\ token.line = 1 + NewlinesIn(src, k)
    /\ token.column = 1 + SinceNewline(src, k)

\* C21, the scan: // gives a COMMENT token of the rest of the line, appended
\* with the newline not consumed; /* gives a COMMENT token appended with the
\* first following */ consumed and nothing after it, and tokenize returns
\* unclosed_comment exactly when there is no such */.
C21_CommentScan ==
    /\ (Returned /\ LineComment(m_source))
           => /\ Len(tokens) >= 1
              /\ tokens[1].type = "COMMENT"
              /\ tokens[1].val = SubSeq(m_source, 3, LineEnd(m_source))
              /\ AppendedAfter(tokens[1], m_source, LineEnd(m_source))
    /\ (Returned /\ BlockComment(m_source))
           => /\ lexer_ret = "unclosed_comment" <=> Closers(m_source) = {}
              /\ Closers(m_source) /= {}
                     => /\ Len(tokens) >= 1
                        /\ tokens[1].type = "COMMENT"
                        /\ tokens[1].val =
                               SubSeq(m_source, 3, FirstCloser(m_source) - 1)
                        /\ AppendedAfter(tokens[1], m_source,
                                         FirstCloser(m_source) + 1)

\* C21, the text: the COMMENT token of a // comment holds the rest of the
\* line.
C21_CommentText ==
    (val_read /= NoRead /\ LineComment(m_source) /\ val_read.at = 1)
        => /\ val_read.outcome /= "fault"
           /\ val_read.text = SubSeq(m_source, 3, LineEnd(m_source))

\* C21: // yields one COMMENT token holding the rest of the line without
\* consuming the newline; /* consumes up to and including the first
\* following */ and yields one COMMENT token, and tokenize fails with
\* unclosed_comment if and only if the input ends before such a */.
C21_Comments == C21_CommentScan /\ C21_CommentText

\* The characters of the operators and the punctuation.
OperatorChars ==
    {"+", "-", "*", "/", "=", "!", "&", "|", ">", "<", ":", ";", ",", ".",
     "(", ")", "[", "]", "{", "}"}

\* A character that starts no token.
StartsNoToken(c) ==
    ~(\/ isspace(c) \/ c = "\n" \/ isalpha(c) \/ c = "_" \/ isdigit(c)
      \/ c \in {"\"", "'"} \/ c \in OperatorChars)

\* The iteration of tokenize that begins at the character c.
IterationAt(c) ==
    /\ lexer_pc = "tokenize"
    /\ m_index < Len(m_source)
    /\ m_source[m_index + 1] = c

\* C22, the unknown character: an iteration that begins at a character
\* starting no token returns unknown_character.
C22_UnknownCharacter ==
    [][\A c \in Alphabet :
           (IterationAt(c) /\ StartsNoToken(c))
               => (lexer_pc' = "returned" /\ lexer_ret' = "unknown_character")]_vars

\* C22, the tokens: the iteration that returns an error appends no token.
C22_ErrorAppendsNothing ==
    [][(lexer_pc = "tokenize" /\ lexer_ret' \in LexerError) => tokens' = tokens]_vars

\* C22: a character that starts no token makes tokenize return
\* unknown_character; tokenize returns at the first error and appends no
\* token for anything at or after the failing position.
C22_FirstError == C22_UnknownCharacter /\ C22_ErrorAppendsNothing

(***************************************************************************)
(* More claims about the Parser, checked under SpecParser.                 *)
(***************************************************************************)
VarXX == <<T_var, X, T_equals, X>>

\* C23, the order: in var x = x, with no x visible before, the x of the
\* initializer does not resolve to the symbol being declared: the type
\* read for it is that of no symbol.
C23_InitializerSeesEarlier ==
    (ParseReturned /\ tokens = VarXX)
        => /\ <<"x">> \in DOMAIN scopes[global_scope].vars
           /\ scopes[global_scope].vars[<<"x">>].type \notin Type

\* C23, the symbol: once var <name> = <literal> is parsed, get_var(<name>)
\* in the same scope returns a symbol whose type is the literal's type.
C23_SymbolHasInitializerType ==
    (ParseReturned /\ IsVarLiteral(tokens))
        => /\ get_var(scopes, current_scope, tokens[2].val) /= nullptr
           /\ get_var(scopes, current_scope, tokens[2].val).type
                  = LiteralType(tokens[4])

\* C23: in var <name> = <expr> the symbol is inserted only after the
\* initializer is fully parsed: an occurrence of <name> inside <expr>
\* resolves to a binding visible before, and once the declaration is
\* parsed get_var(<name>) in the same scope returns a symbol whose type is
\* the initializer's type.
C23_DeclaredAfterInitializer ==
    C23_InitializerSeesEarlier /\ C23_SymbolHasInitializerType

(***************************************************************************)
(* More claims about the Lexer, checked under SpecLexer.                   *)
(***************************************************************************)
SingleLine(src) == \A i \in 1..Len(src) : src[i] /= "\n"

\* Whether src is the texts in order with whitespace put before, between
\* and after them.
RECURSIVE Rebuilds(_, _)
Rebuilds(src, texts) ==
    IF texts = <<>>
    THEN \A i \in 1..Len(src) : isspace(src[i])
    ELSE \E k \in 0..(Len(src) - Len(Head(texts))) :
             /\ \A i \in 1..k : isspace(src[i])
             /\ SubSeq(src, k + 1, k + Len(Head(texts))) = Head(texts)
             /\ Rebuilds(SubSeq(src, k + Len(Head(texts)) + 1, Len(src)), Tail(texts))

\* The texts the tokens were given, in order.
TokenTexts == [i \in 1..Len(tokens) |-> tokens[i].val]

\* C24, the texts as the scanner wrote them: they and the skipped
\* whitespace are the input.
C24_WrittenTexts ==
    (Returned /\ lexer_ret = "nullopt" /\ SingleLine(m_source))
        => Rebuilds(m_source, TokenTexts)

\* C24, the text as it is read: for an input of one token, the text read
\* from the token and the skipped whitespace are the input.
C24_ReadText ==
    (/\ val_read /= NoRead
     /\ lexer_ret = "nullopt"
     /\ SingleLine(m_source)
     /\ Len(tokens) = 1)
        => /\ val_read.outcome /= "fault"
           /\ Rebuilds(m_source, <<val_read.text>>)

\* C24: for every single-line input that tokenizes without error,
\* concatenating the tokens' text in order and reinserting the skipped
\* whitespace reproduces the input exactly.
C24_RoundTrip == C24_WrittenTexts /\ C24_ReadText

\* The source of LexerStrings.AnsiEscapeCode: backslash n, backslash t,
\* backslash r, outside any quotes.
EscapeSource == <<"\\", "n", "\\", "t", "\\", "r">>

\* C25: a source made only of the escape sequences backslash-n,
\* backslash-t, backslash-r tokenizes without error to a non-empty token
\* sequence whose first token's text is newline, tab, carriage return.
C25_EscapesOutsideQuotes ==
    /\ (Returned /\ m_source = EscapeSource)
           => (lexer_ret = "nullopt" /\ tokens /= <<>>)
    /\ (val_read /= NoRead /\ m_source = EscapeSource /\ val_read.at = 1)
           => val_read.text = <<"\n", "\t", "\r">>

(***************************************************************************)
(* Claims about binary nodes, the fn forms and the end of the tokens,      *)
(* checked under SpecParser.                                               *)
(***************************************************************************)
VarXOnePlusTwo == <<T_var, X, T_equals, One, T_plus, Two>>

\* C26: a binary node built from two operands of the same Type T carries
\* Type T, so var x = 1 + 2 declares x with type INT and never UNKNOWN.
C26_BinaryType ==
    /\ (/\ ParseReturned
        /\ tokens \in Chains(1)
        /\ LiteralType(tokens[1]) = LiteralType(tokens[3]))
           => /\ Len(nodes) = 1
              /\ nodes[1].kind = "BinaryOperation"
              /\ nodes[1].type = LiteralType(tokens[1])
    /\ (ParseReturned /\ tokens = VarXOnePlusTwo)
           => /\ <<"x">> \in DOMAIN scopes[global_scope].vars
              /\ scopes[global_scope].vars[<<"x">>].type = "INT"

\* The iteration of parse that begins at the keyword fn.
AtFnForm ==
    /\ parser_pc = "parse"
    /\ index + 2 <= Len(tokens)
    /\ tokens[index + 1] = T_fn

\* C27: parsing a fn form, prototype or definition with a body, adds no
\* entry to a variable namespace: get_var on the function's name, from the
\* scope the form is parsed in, returns after it what it returned before.
C27_FnLeavesVariables ==
    [][AtFnForm =>
           get_var(scopes', current_scope, tokens[index + 2].val)
               = get_var(scopes, current_scope, tokens[index + 2].val)]_vars

(***************************************************************************)
(* The Lexer and the Parser together: either class is constructed and its  *)
(* entry point called.  The texts of the tokens are not read here.         *)
(***************************************************************************)
InitNano == InitLexer \/ InitParser

NextNano == TokenizeStep \/ TokenizeReturn \/ ParseStep \/ ParseReturn \/ FnBodyLoop

SpecNano == InitNano /\ [][NextNano]_vars

\* C28, the scanner: no token it appends is a T_EOF token.
C28_ScannerEmitsNoEof ==
    \A i \in 1..Len(tokens) : tokens[i].type /= "T_EOF"

\* C28, the parser: index never exceeds the number of tokens, and with
\* index at the number of tokens peek_next and next_token both return a
\* T_EOF token and leave index unchanged.
C28_ParserSynthesizesEof ==
    /\ index <= Len(tokens)
    /\ index = Len(tokens)
           => /\ peek_token(tokens, Fields).type = "T_EOF"
              /\ next_token(tokens, Fields).tok.type = "T_EOF"
              /\ next_token(tokens, Fields).P.index = index

\* C28: the scanner never emits a T_EOF token; the parser synthesizes it:
\* in every reachable parser state index <= number of tokens, and whenever
\* index equals the number of tokens both peek_next and next_token return
\* a T_EOF token and leave index unchanged.
C28_EofSynthesized == C28_ScannerEmitsNoEof /\ C28_ParserSynthesizesEof

\* C28's case: in ( 1 the token after the expression is asked for with
\* index at the number of tokens; T_EOF came back, index stayed, and parse
\* has returned.
C28_Witness ==
    /\ ParseReturned
    /\ tokens = <<T_lparen, One>>
    /\ index = Len(tokens)
    /\ Len(nodes) = 1

(***************************************************************************)
(* tokenize is one thread that runs until it returns: weak fairness of     *)
(* the steps of its loop.  The caller's later reads are not followed.      *)
(***************************************************************************)
\* Where <<TokenizeStep>>_vars is enabled: the loop runs on and the
\* iteration changes the state.
TokenizeStepEnabled ==
    /\ lexer_pc = "tokenize"
    /\ m_index < Len(m_source)
    /\ LET r == TokenizeIter(m_source,
                             [m_index |-> m_index, m_line |-> m_line, m_column |-> m_column],
                             tokens)
       IN  <<r.L.m_index, r.L.m_line, r.L.m_column, r.tokens, r.err>>
               /= <<m_index, m_line, m_column, tokens, lexer_ret>>

\* The weak fairness of TokenizeStep is written out over where it is
\* enabled.
FairSpecLexer ==
    /\ InitLexer
    /\ [][TokenizeStep \/ TokenizeReturn]_vars
    /\ WF_vars(TokenizeReturn)
    /\ ([]<>(~TokenizeStepEnabled) \/ []<><<TokenizeStep>>_vars)

\* C29, termination: tokenize returns.
C29_Returns == <>Returned

\* C29, progress: an iteration of the main loop consumes at least one
\* character, and no step moves the read offset back.
C29_Consumes ==
    [][/\ m_index' >= m_index
       /\ (lexer_pc = "tokenize" /\ m_index < Len(m_source)) => m_index' > m_index]_vars

\* C29, the bound: the read offset never exceeds the length of the source,
\* so a loop over a literal or a comment that meets the end of the input
\* stops there.
C29_InBounds == [](m_index <= Len(m_source))

\* C29: for every finite source text tokenize terminates: each iteration
\* of its main loop consumes at least one character, the read offset never
\* decreases and never exceeds the source length, and every inner literal
\* or comment loop stops at end of input.  Checked under FairSpecLexer.
C29_TokenizeTerminates == C29_Returns /\ C29_Consumes /\ C29_InBounds

\* C29's case: the loop of a string literal has run into the end of a
\* source of MaxLen characters and stopped, and tokenize has returned with
\* the offset at the length of the source.
C29_Witness ==
    /\ Returned
    /\ Len(m_source) = MaxLen
    /\ m_index = Len(m_source)
    /\ lexer_ret = "unterminated_string"

\* C30: at every point of scanning m_line is 1 plus the number of newline
\* characters consumed and m_column is 1 plus the number of characters
\* consumed since the last of them, column being 1 again exactly when a
\* newline is consumed; a read at the end of the input changes neither.
\* Checked under SpecLexer.
C30_LineAndColumn ==
    LET L == [m_index |-> m_index, m_line |-> m_line, m_column |-> m_column]
    IN  /\ m_line = 1 + NewlinesIn(m_source, m_index)
        /\ m_column = 1 + SinceNewline(m_source, m_index)
        /\ m_index >= Len(m_source)
               => /\ next_char(m_source, L).L = L
                  /\ next_char(m_source, L).c = NUL

\* C30's case: in a source that ends with a newline inside an unclosed
\* block comment the newline was consumed, the column is 1 again on line
\* 2, and the loop of the comment has read at the end of the input.
C30_Witness ==
    /\ Returned
    /\ lexer_ret = "unclosed_comment"
    /\ m_source = <<"/", "*", "\n">>
    /\ m_index = Len(m_source)
    /\ m_line = 2
    /\ m_column = 1

====
